---- MODULE Spec2Model ----
(***************************************************************************)
(* Model of train.py: the command-line parameter reconciliation done by    *)
(* the __main__ block (evaluation from a prior experiment) and the         *)
(* epoch / task loop of main(), run by one master and one non-master       *)
(* process.                                                                *)
(*                                                                         *)
(* Python strings that the program concatenates or that are parsed are     *)
(* sequences of tokens: "" is << >>, a + b is a \o b, and the separators   *)
(* "," and ";" are tokens of their own.  None is the empty option << >>,   *)
(* an integer option value n is << n >>.                                   *)
(***************************************************************************)
EXTENDS Integers, Sequences, FiniteSets, TLC

VARIABLES params, cli, pk, files, phase, pc, pass, tr

vars == <<params, cli, pk, files, phase, pc, pass, tr>>

(* ------------------------------ bounds -------------------------------- *)
MaxMissing == 1
MaxTasks == 2
MaxEpoch == 3
MaxEpochSize == 3
MaxBatchSize == 2
MaxScore == 1

(* ------------------------------ strings ------------------------------- *)
COMMA == ","
SEMI == ";"
EMPTY == << >>
None == << >>

RECURSIVE Split(_, _)
Split(s, sep) ==
  IF \E i \in 1..Len(s) : s[i] = sep
  THEN LET i == CHOOSE j \in 1..Len(s) :
                  s[j] = sep /\ \A k \in 1..(j - 1) : s[k] # sep
       IN <<SubSeq(s, 1, i - 1)>> \o Split(SubSeq(s, i + 1, Len(s)), sep)
  ELSE <<s>>

SelectNonEmpty(ss) == SelectSeq(ss, LAMBDA x : Len(x) > 0)

(* the entries of a --reload_data value: one per ";"-separated part, each  *)
(* the ","-separated fields task, train_path, valid_path, test_path...     *)
ReloadEntries(s) ==
  LET parts == SelectNonEmpty(Split(s, SEMI))
  IN [i \in 1..Len(parts) |-> Split(parts[i], COMMA)]

(* ------------------------------ fields -------------------------------- *)
Identity == {"exp_id", "dump_path", "exp_name"}

Excluded == {"eval_data", "batch_size_eval", "local_rank", "beam_eval",
             "beam_size", "eval_verbose", "eval_verbose_print",
             "master_port", "max_len", "max_output_len", "lyap_SOS_checker"}

Fields == Identity \cup Excluded \cup
          {"eval_only", "eval_from_exp", "validation_metrics", "tasks",
           "reload_data", "reload_model", "eval_size", "emb_dim", "batch_size",
           "export_data", "max_epoch", "epoch_size", "stopping_criterion",
           "debug", "debug_slurm"}

ExpDir == <<"/exp/run1">>
EvalPath == <<"/data/eval">>
TaskPool == <<"ode_lyapunov", "ode_control", "ode_convergence_speed">>

RECURSIVE TaskString(_)
TaskString(n) ==
  IF n = 1 THEN <<TaskPool[1]>>
  ELSE TaskString(n - 1) \o <<COMMA, TaskPool[n]>>

(* the parser's defaults *)
Default(f) ==
  CASE f = "dump_path" -> <<"/path/to/your/storage">>
    [] f = "exp_name" -> <<"debug">>
    [] f = "exp_id" -> EMPTY
    [] f = "emb_dim" -> 640
    [] f = "max_len" -> 512
    [] f = "max_output_len" -> 512
    [] f = "batch_size" -> 32
    [] f = "batch_size_eval" -> 128
    [] f = "eval_size" -> <<10000>>
    [] f = "epoch_size" -> 300000
    [] f = "max_epoch" -> 100000
    [] f = "stopping_criterion" -> EMPTY
    [] f = "validation_metrics" -> EMPTY
    [] f = "export_data" -> FALSE
    [] f = "reload_data" -> EMPTY
    [] f = "tasks" -> TaskString(1)
    [] f = "beam_eval" -> FALSE
    [] f = "beam_size" -> 1
    [] f = "reload_model" -> EMPTY
    [] f = "eval_only" -> FALSE
    [] f = "eval_from_exp" -> EMPTY
    [] f = "eval_data" -> EMPTY
    [] f = "eval_verbose" -> 0
    [] f = "eval_verbose_print" -> FALSE
    [] f = "debug_slurm" -> FALSE
    [] f = "debug" -> FALSE
    [] f = "local_rank" -> -1
    [] f = "master_port" -> -1
    [] f = "lyap_SOS_checker" -> FALSE

(* what the prior experiment recorded: for every field a value other than  *)
(* the one the evaluation run is started with                              *)
Recorded(f) ==
  CASE f = "dump_path" -> <<"/exp">>
    [] f = "exp_name" -> <<"run">>
    [] f = "exp_id" -> <<"run1">>
    [] f = "emb_dim" -> 512
    [] f = "max_len" -> 256
    [] f = "max_output_len" -> 256
    [] f = "batch_size" -> 16
    [] f = "batch_size_eval" -> 64
    [] f = "eval_size" -> <<500>>
    [] f = "epoch_size" -> 1
    [] f = "max_epoch" -> 1
    [] f = "stopping_criterion" -> <<"acc", COMMA, "0">>
    [] f = "validation_metrics" -> <<"loss">>
    [] f = "export_data" -> TRUE
    [] f = "reload_data" -> <<"ode_lyapunov", COMMA, "/data/train", COMMA,
                              "/data/valid", COMMA, "/data/test">>
    [] f = "tasks" -> <<TaskPool[2]>>
    [] f = "beam_eval" -> TRUE
    [] f = "beam_size" -> 10
    [] f = "reload_model" -> <<"/old/model.pth">>
    [] f = "eval_only" -> FALSE
    [] f = "eval_from_exp" -> <<"/exp/run0">>
    [] f = "eval_data" -> <<"/data/old">>
    [] f = "eval_verbose" -> 1
    [] f = "eval_verbose_print" -> TRUE
    [] f = "debug_slurm" -> TRUE
    [] f = "debug" -> TRUE
    [] f = "local_rank" -> 0
    [] f = "master_port" -> 10001
    [] f = "lyap_SOS_checker" -> TRUE

Metrics == {<<"acc">>, <<"loss">>}

(* a command line: the parser's defaults with some options given *)
CommandLine(given) ==
  [f \in Fields |-> IF f \in DOMAIN given THEN given[f] ELSE Default(f)]

(* evaluation of a prior experiment *)
ResumeLines ==
  {CommandLine([eval_only |-> TRUE, eval_from_exp |-> ExpDir,
                validation_metrics |-> <<"acc">>, eval_data |-> d]) :
     d \in {EMPTY, EvalPath}}

(* training or data export *)
TrainLines ==
  {CommandLine([export_data |-> x, tasks |-> TaskString(n),
                max_epoch |-> me, epoch_size |-> es, batch_size |-> b,
                stopping_criterion |-> sc]) :
     x \in BOOLEAN, n \in 1..MaxTasks, me \in 0..MaxEpoch,
     b \in 1..MaxBatchSize, es \in 1..MaxEpochSize, sc \in {EMPTY, <<"acc", COMMA, "0">>}}

(* plain evaluation, and training with --eval_from_exp left set *)
OtherLines ==
  {CommandLine([eval_only |-> eo,
                eval_from_exp |-> IF eo THEN EMPTY ELSE ExpDir,
                debug |-> d, max_epoch |-> 1, epoch_size |-> 1]) :
     eo \in BOOLEAN, d \in BOOLEAN}

(* the subsets of S with at most k elements *)
RECURSIVE AtMost(_, _)
AtMost(S, k) ==
  IF k = 0 THEN {{}}
  ELSE LET prev == AtMost(S, k - 1)
       IN prev \cup {s \cup {x} : s \in prev, x \in S}

(* the pickled namespaces params.pkl may hold: some fields may be missing  *)
Snapshots ==
  {[f \in (Fields \ miss) |->
      CASE f = "eval_only" -> eo
        [] f = "validation_metrics" -> m
        [] OTHER -> Recorded(f)] :
     miss \in AtMost(Fields, MaxMissing),
     eo \in BOOLEAN, m \in Metrics}

NoSnapshot == [none |-> TRUE]

PickleFile(exp) == exp \o <<"/params.pkl">>
BestFile(exp, m) == exp \o <<"/best-">> \o m \o <<".pth">>

AllFiles == {PickleFile(ExpDir)} \cup {BestFile(ExpDir, m) : m \in Metrics}

FileSystems == SUBSET AllFiles

(* ----------------------------- processes ------------------------------ *)
Procs == {0, 1}

(* rank zero is the master *)
is_master(p) == p = 0

Scores == 0..MaxScore
NoScore == 0 - 1

(* the configured task list main() indexes: params.tasks split on "," *)
Tasks(ps) == SelectNonEmpty(Split(ps.tasks, COMMA))

(* draws with replacement, as np.random.randint(n, size=n) would *)
drawWithReplacement(n) == [1..n -> 1..n]

(* the order drawn for an empty task list *)
permutationOfNone(n) == {<< >>}

(* the orders np.random.permutation(n) can return *)
permutation(n) ==
  {f \in [1..n -> 1..n] : \A i, j \in 1..n : f[i] = f[j] => i = j}

(* a freshly built trainer, with the call record of this process *)
NewTrainer ==
  [epoch |-> 0, n_equations |-> 0, n_total_iter |-> 0,
   units |-> << >>, nTrain |-> 0, nExport |-> 0,
   nEvals |-> 0, scores |-> NoScore, nLogs |-> 0, logged |-> NoScore,
   nBest |-> 0, bestArg |-> NoScore, nPeriodic |-> 0,
   nEnd |-> 0, endArg |-> NoScore,
   best_stop |-> NoScore, decrease |-> 0, calls |-> << >>]

(* ------------------------------ initial ------------------------------- *)
Init ==
  /\ \/ cli \in ResumeLines /\ files \in FileSystems
     \/ cli \in TrainLines \cup OtherLines /\ files = AllFiles
  /\ params = cli
  /\ pk = NoSnapshot
  /\ phase = "parsed"
  /\ pc = [p \in Procs |-> "idle"]
  /\ pass = [p \in Procs |-> 0]
  /\ tr = [p \in Procs |-> NewTrainer]

(* ------------------------- reconciliation ----------------------------- *)
ReconcilerActive(ps) == ps.eval_only /\ ps.eval_from_exp # EMPTY

(* Stripped without the loop over the exclusion list *)
StrippedIdentityOnly(snap) ==
  [f \in (DOMAIN snap \ Identity) |-> snap[f]]

(* pickled_args after the del statements *)
Stripped(snap) ==
  [f \in (DOMAIN snap \ (Identity \cup Excluded)) |-> snap[f]]

(* Overlay without the assignment: nothing is copied *)
OverlayNone(ps, pickled_args) == ps

(* the copy loop over params.__dict__ *)
Overlay(ps, pickled_args) ==
  [p \in DOMAIN ps |->
     IF p \in DOMAIN pickled_args THEN pickled_args[p] ELSE ps[p]]

(* ReloadPath from params.eval_from_exp as merged, not from exp_str *)
ReloadPathFromParams(exp_str, ps) ==
  ps.eval_from_exp \o <<"/best-">> \o ps.validation_metrics \o <<".pth">>

ReloadPath(exp_str, ps) ==
  exp_str \o <<"/best-">> \o ps.validation_metrics \o <<".pth">>

(* ForceEval without params.eval_only = True *)
ForceEvalKeep(exp_str, ps) ==
  [ps EXCEPT !.reload_model = ReloadPath(exp_str, ps)]

ForceEval(exp_str, ps) ==
  LET q == [ps EXCEPT !.eval_only = TRUE]
  IN [q EXCEPT !.reload_model = ReloadPath(exp_str, q)]

EvalData(ps) ==
  IF ps.eval_data # EMPTY
  THEN [ps EXCEPT !.eval_size = None,
                  !.reload_data = ps.tasks \o <<COMMA>> \o ps.eval_data
                                  \o <<COMMA>> \o ps.eval_data]
  ELSE ps

Reconcile ==
  /\ phase = "parsed"
  /\ ReconcilerActive(params)
  /\ LET pickle_file == params.eval_from_exp \o <<"/params.pkl">>
         exp_str == params.eval_from_exp
     IN IF pickle_file \notin files
        THEN /\ phase' = "AssertionError"
             /\ UNCHANGED <<params, pk>>
        ELSE \E snap \in Snapshots :
               /\ pk' = snap
               /\ IF ~(Identity \subseteq DOMAIN snap)
                  THEN /\ phase' = "KeyError"
                       /\ UNCHANGED params
                  ELSE LET merged == ForceEval(exp_str,
                                       Overlay(params, Stripped(snap)))
                       IN IF merged.reload_model \notin files
                          THEN /\ phase' = "AssertionError"
                               /\ params' = merged
                          ELSE /\ phase' = "reconciled"
                               /\ params' = EvalData(merged)
  /\ UNCHANGED <<cli, files, pc, pass, tr>>

(* debug mode, check_model_params and the call of main(): every process    *)
(* arrives at the eval_only test with its trainer built                    *)
DebugMode(ps, r) ==
  IF ps.debug
  THEN [ps EXCEPT !.exp_name = <<"debug">>,
                  !.exp_id = IF ps.exp_id = EMPTY THEN <<"debug_", r>>
                             ELSE ps.exp_id,
                  !.debug_slurm = TRUE]
  ELSE ps

Launch ==
  /\ \/ phase = "reconciled"
     \/ phase = "parsed" /\ ~ReconcilerActive(params)
  /\ \E r \in {"00000000", "00000001"} : params' = DebugMode(params, r)
  /\ phase' = "main"
  /\ pc' = [p \in Procs |-> "eval_check"]
  /\ tr' = [p \in Procs |->
             [NewTrainer EXCEPT
                !.units = [i \in 1..Len(Tasks(params')) |-> 0]]]
  /\ UNCHANGED <<cli, pk, files, pass>>

(* ------------------------- trainer, evaluator ------------------------- *)
(* one unit of work on task number i: trainer.export_data(task) or         *)
(* trainer.enc_dec_step(task)                                              *)
export_data(t, i) ==
  [t EXCEPT !.nExport = @ + 1, !.units[i] = @ + 1]

enc_dec_step(t, i) ==
  [t EXCEPT !.nTrain = @ + 1, !.units[i] = @ + 1]

(* trainer.iter(): the global step advances and the batch just processed   *)
(* is added to the work-unit counter                                       *)
iter(ps, t) ==
  [t EXCEPT !.n_total_iter = @ + 1, !.n_equations = @ + ps.batch_size]

WorkUnit(ps, t, i) ==
  IF ps.export_data THEN export_data(t, i) ELSE enc_dec_step(t, i)

(* the for loop over one drawn order: for each task its unit of work, then *)
(* the bookkeeping call                                                    *)
RECURSIVE RunOrder(_, _, _)
RunOrder(ps, t, order) ==
  IF order = << >> THEN t
  ELSE RunOrder(ps, iter(ps, WorkUnit(ps, t, Head(order))), Tail(order))

(* evaluator.run_all_evals() and the log lines that follow it *)
run_all_evals(t, s) ==
  [t EXCEPT !.nEvals = @ + 1, !.scores = s, !.nLogs = @ + 1, !.logged = s,
            !.calls = Append(@, "run_all_evals")]

save_best_model(t, s) ==
  [t EXCEPT !.nBest = @ + 1, !.bestArg = s,
            !.calls = Append(@, "save_best_model")]

save_periodic(t) ==
  [t EXCEPT !.nPeriodic = @ + 1, !.calls = Append(@, "save_periodic")]

(* the threshold N of a stopping criterion "metric,N" *)
Threshold(sc) == CHOOSE n \in 0..9 : <<"0", "1", "2", "3", "4", "5", "6",
                                      "7", "8", "9">>[n + 1] = sc[Len(sc)]

(* trainer.end_epoch(scores): non-increase counter, then the next epoch *)
end_epoch(ps, t, s) ==
  LET better == s > t.best_stop
      u == IF ps.stopping_criterion = EMPTY THEN t
           ELSE [t EXCEPT !.best_stop = IF better THEN s ELSE @,
                          !.decrease = IF better THEN 0 ELSE @ + 1]
  IN [u EXCEPT !.nEnd = @ + 1, !.endArg = s, !.epoch = @ + 1,
               !.calls = Append(@, "end_epoch")]

MustStop(ps, t) ==
  /\ ps.stopping_criterion # EMPTY
  /\ t.decrease > Threshold(ps.stopping_criterion)

(* ------------------------------- main() ------------------------------- *)
EvalOnly(p) ==
  /\ pc[p] = "eval_check"
  /\ params.eval_only
  /\ \E s \in Scores : tr' = [tr EXCEPT ![p] = run_all_evals(@, s)]
  /\ pc' = [pc EXCEPT ![p] = "exited"]
  /\ UNCHANGED <<params, cli, pk, files, phase, pass>>

AtForEpoch(p) ==
  \/ pc[p] = "eval_check" /\ ~params.eval_only
  \/ pc[p] = "for_epoch"

(* StartEpoch without the reset of the work-unit counter *)
StartEpochNoReset(p) ==
  /\ AtForEpoch(p)
  /\ pass[p] < params.max_epoch
  /\ pc' = [pc EXCEPT ![p] = "while"]
  /\ UNCHANGED <<params, cli, pk, files, phase, pass, tr>>

StartEpoch(p) ==
  /\ AtForEpoch(p)
  /\ pass[p] < params.max_epoch
  /\ tr' = [tr EXCEPT ![p].n_equations = 0]
  /\ pc' = [pc EXCEPT ![p] = "while"]
  /\ UNCHANGED <<params, cli, pk, files, phase, pass>>

EndTraining(p) ==
  /\ AtForEpoch(p)
  /\ ~(pass[p] < params.max_epoch)
  /\ pc' = [pc EXCEPT ![p] = "done"]
  /\ UNCHANGED <<params, cli, pk, files, phase, pass, tr>>

(* one pass of the while loop: a fresh order, then every task of it *)
InnerStep(p) ==
  /\ pc[p] = "while"
  /\ tr[p].n_equations < params.epoch_size
  /\ \E order \in permutation(Len(Tasks(params))) :
       tr' = [tr EXCEPT ![p] = RunOrder(params, @, order)]
  /\ UNCHANGED <<params, cli, pk, files, phase, pc, pass>>

ExitInner(p) ==
  /\ pc[p] = "while"
  /\ ~(tr[p].n_equations < params.epoch_size)
  /\ pc' = [pc EXCEPT ![p] = "epoch_end"]
  /\ UNCHANGED <<params, cli, pk, files, phase, pass, tr>>

NotMaster(p) ==
  /\ pc[p] = "epoch_end"
  /\ ~is_master(p)
  /\ pass' = [pass EXCEPT ![p] = @ + 1]
  /\ pc' = [pc EXCEPT ![p] = "for_epoch"]
  /\ UNCHANGED <<params, cli, pk, files, phase, tr>>

(* EndOfEpoch without the is_master test *)
EndOfEpochUngated(p) ==
  /\ pc[p] = "epoch_end"
  /\ \E s \in Scores :
       LET evaluated == run_all_evals(tr[p], s)
           scores == evaluated.scores
           t == end_epoch(params,
                  save_periodic(save_best_model(evaluated, scores)), scores)
       IN /\ tr' = [tr EXCEPT ![p] = t]
          /\ pc' = [pc EXCEPT ![p] = IF MustStop(params, t) THEN "exited"
                                     ELSE "for_epoch"]
  /\ pass' = [pass EXCEPT ![p] = @ + 1]
  /\ UNCHANGED <<params, cli, pk, files, phase>>

(* the master's end of an epoch: evaluation, logging, best and periodic    *)
(* checkpoints, end_epoch, which may end the run                           *)
EndOfEpoch(p) ==
  /\ pc[p] = "epoch_end"
  /\ is_master(p)
  /\ \E s \in Scores :
       LET evaluated == run_all_evals(tr[p], s)
           scores == evaluated.scores
           t == end_epoch(params,
                  save_periodic(save_best_model(evaluated, scores)), scores)
       IN /\ tr' = [tr EXCEPT ![p] = t]
          /\ pc' = [pc EXCEPT ![p] = IF MustStop(params, t) THEN "exited"
                                     ELSE "for_epoch"]
  /\ pass' = [pass EXCEPT ![p] = @ + 1]
  /\ UNCHANGED <<params, cli, pk, files, phase>>

ProcNext(p) ==
  \/ EvalOnly(p)
  \/ StartEpoch(p)
  \/ EndTraining(p)
  \/ InnerStep(p)
  \/ ExitInner(p)
  \/ NotMaster(p)
  \/ EndOfEpoch(p)

Next ==
  \/ Reconcile
  \/ Launch
  \/ \E p \in Procs : ProcNext(p)

Spec == Init /\ [][Next]_vars

(* every process keeps running until its script ends; the runs that train  *)
(* (export_data off), with every file of the prior experiment in place     *)
FairInit == Init /\ ~cli.export_data /\ files = AllFiles

FairSpec == FairInit /\ [][Next]_vars /\ WF_vars(Next)

(* ------------------------------ claims ------------------------------- *)
Training == phase = "main" /\ ~params.eval_only

InnerLoop(p) == pc[p] = "while"

Loaded == pk # NoSnapshot

Reconciled == phase \in {"reconciled", "main"} /\ ReconcilerActive(cli)

RECURSIVE Sum(_)
Sum(q) == IF q = << >> THEN 0 ELSE Head(q) + Sum(Tail(q))

(* C1: in training mode every process enters an epoch's inner loop with    *)
(* the work-unit counter reset to 0 and leaves it only with the counter    *)
(* at or above the configured epoch size.                                  *)
C1_EpochCounter ==
  [][\A p \in Procs :
       /\ (~InnerLoop(p) /\ InnerLoop(p)') => tr'[p].n_equations = 0
       /\ (InnerLoop(p) /\ ~InnerLoop(p)') =>
             tr'[p].n_equations >= params.epoch_size]_vars

C1_Witness ==
  \E p \in Procs :
    /\ pc[p] = "epoch_end"
    /\ pass[p] = 1
    /\ tr[p].n_equations > params.epoch_size

(* C2: in training mode the master performs run_all_evals,                 *)
(* save_best_model(scores), save_periodic, end_epoch(scores) once per      *)
(* completed epoch, in that order, with the Score Report of that           *)
(* evaluation and never inside an inner loop; a non-master process calls   *)
(* none of them; max_epoch epochs give max_epoch evaluations.              *)
EndOfEpochCalls ==
  <<"run_all_evals", "save_best_model", "save_periodic", "end_epoch">>

C2_EndOfEpoch ==
  Training =>
    \A p \in Procs :
      LET t == tr[p]
          k == pass[p]
      IN IF ~is_master(p)
         THEN /\ t.nEvals = 0 /\ t.nBest = 0 /\ t.nPeriodic = 0
              /\ t.nEnd = 0 /\ t.calls = << >>
         ELSE /\ t.nEvals = k /\ t.nBest = k /\ t.nPeriodic = k
              /\ t.nEnd = k /\ t.nLogs = k
              /\ Len(t.calls) = 4 * k
              /\ \A i \in 1..Len(t.calls) :
                   t.calls[i] = EndOfEpochCalls[((i - 1) % 4) + 1]
              /\ t.logged = t.scores
              /\ t.bestArg = t.scores
              /\ t.endArg = t.scores
              /\ pc[p] = "done" => t.nEvals = params.max_epoch

C2_Witness ==
  /\ Training
  /\ params.max_epoch = 2
  /\ \A p \in Procs : pc[p] = "done"
  /\ tr[0].nEnd = 2
  /\ tr[0].endArg = 1
  /\ tr[1].n_total_iter > 0

(* C3: when main runs with eval_only set, which is the case in every run   *)
(* the reconciler was active in whatever the snapshot recorded, each       *)
(* process calls run_all_evals once, logs the scores and exits, and no     *)
(* training step, export step, bookkeeping call, checkpoint write or       *)
(* end_epoch call happens.                                                 *)
C3_EvalOnly ==
  /\ Reconciled => params.eval_only
  /\ (phase = "main" /\ params.eval_only) =>
       \A p \in Procs :
         LET t == tr[p]
         IN /\ pc[p] \in {"eval_check", "exited"}
            /\ t.nEvals = IF pc[p] = "exited" THEN 1 ELSE 0
            /\ t.nLogs = t.nEvals
            /\ t.logged = t.scores
            /\ t.nTrain = 0 /\ t.nExport = 0 /\ t.n_total_iter = 0
            /\ t.nBest = 0 /\ t.nPeriodic = 0 /\ t.nEnd = 0
            /\ t.calls = IF pc[p] = "exited" THEN <<"run_all_evals">>
                         ELSE << >>

C3_Witness ==
  /\ Reconciled
  /\ "eval_only" \in DOMAIN pk
  /\ ~pk.eval_only
  /\ \A p \in Procs : pc[p] = "exited" /\ tr[p].nEvals = 1

(* C4 as stated: after reconciliation the reload path is built from the    *)
(* eval_from_exp and the validation_metrics the run was started with.      *)
C4_Original ==
  Reconciled =>
    params.reload_model =
      cli.eval_from_exp \o <<"/best-">> \o cli.validation_metrics
        \o <<".pth">>

(* C4 as amended: the reload path is built from the eval_from_exp the run  *)
(* was started with and the validation_metrics after merging (the          *)
(* snapshot's when it records one); a run with no file at that path fails  *)
(* before any process reaches main.                                        *)
MergedMetric ==
  IF "validation_metrics" \in DOMAIN pk THEN pk.validation_metrics
  ELSE cli.validation_metrics

C4_ReloadPath ==
  /\ Reconciled =>
       /\ params.reload_model =
            cli.eval_from_exp \o <<"/best-">> \o MergedMetric \o <<".pth">>
       /\ params.reload_model \in files
  /\ (phase = "AssertionError" /\ Loaded) =>
       /\ params.reload_model =
            cli.eval_from_exp \o <<"/best-">> \o MergedMetric \o <<".pth">>
       /\ params.reload_model \notin files
  /\ phase \in {"AssertionError", "KeyError"} =>
       \A p \in Procs : pc[p] = "idle" /\ tr[p].nEvals = 0

C4_Witness ==
  /\ phase = "AssertionError"
  /\ Loaded
  /\ params.reload_model = <<"/exp/run1", "/best-", "loss", ".pth">>
  /\ cli.validation_metrics = <<"acc">>
  /\ BestFile(ExpDir, <<"acc">>) \in files

(* C5: after a reconciliation with an eval_data path P the evaluation      *)
(* sample cap is unbounded and every entry of reload_data names P as its   *)
(* train path, its valid path and its test path.                           *)
C5_EvalDataSplits ==
  (Reconciled /\ cli.eval_data # EMPTY) =>
    /\ params.eval_size = None
    /\ LET es == ReloadEntries(params.reload_data)
       IN /\ Len(es) >= 1
          /\ \A i \in 1..Len(es) :
               /\ Len(es[i]) >= 4
               /\ \A j \in 2..Len(es[i]) : es[i][j] = cli.eval_data

Shared == (DOMAIN cli \cap DOMAIN pk) \ (Identity \cup Excluded)

(* C6 as stated: after reconciliation every shared, non-excluded field     *)
(* holds the snapshot's value.                                             *)
C6_Original ==
  (Reconciled /\ Loaded) => \A f \in Shared : params[f] = pk[f]

(* C6 as amended: the same, except for eval_only and reload_model, which   *)
(* reconciliation sets itself, for eval_size and reload_data when an       *)
(* eval_data path is given, and for debug_slurm when debug is set.         *)
Overridden ==
  {"eval_only", "reload_model"}
    \cup (IF params.eval_data # EMPTY THEN {"eval_size", "reload_data"}
          ELSE {})
    \cup (IF params.debug THEN {"debug_slurm"} ELSE {})

C6_Overwrite ==
  (Reconciled /\ Loaded) =>
    \A f \in Shared \ Overridden : params[f] = pk[f]

C6_Witness ==
  /\ Reconciled
  /\ Loaded
  /\ params.eval_data # EMPTY
  /\ {"emb_dim", "tasks", "eval_size", "eval_only"} \subseteq Shared
  /\ params.emb_dim = pk.emb_dim
  /\ cli.emb_dim # pk.emb_dim
  /\ params.eval_size # pk.eval_size

(* C7 as stated: once the snapshot is loaded every excluded field keeps    *)
(* the command line's value, and no snapshot makes reconciliation fail on  *)
(* its fields.                                                             *)
C7_Original ==
  (Loaded /\ phase \notin {"parsed", "main"}) =>
    /\ \A f \in Identity \cup Excluded : params[f] = cli[f]
    /\ phase # "KeyError"

(* C7 as amended: every excluded field keeps the command line's value, and *)
(* reconciliation gets past the field removal exactly for the snapshots    *)
(* that hold exp_id, dump_path and exp_name, whether or not they hold any  *)
(* of the other eleven fields.                                             *)
C7_ExcludedKept ==
  (Loaded /\ phase \notin {"parsed", "main"}) =>
    /\ \A f \in Identity \cup Excluded : params[f] = cli[f]
    /\ phase = "KeyError" <=> ~(Identity \subseteq DOMAIN pk)

C7_Witness ==
  /\ phase = "reconciled"
  /\ "lyap_SOS_checker" \notin DOMAIN pk
  /\ \A f \in (Identity \cup Excluded) \ {"lyap_SOS_checker"} :
       f \in DOMAIN pk /\ pk[f] # params[f]

(* C8: in training mode every inner step works through an order that holds *)
(* every configured task exactly once, one unit of work per task (export   *)
(* or training step, never both kinds in a run) and one iter() per unit:   *)
(* an inner step gives every task exactly one more unit, so all tasks have *)
(* the same number of units and iter() was called once per unit.           *)
C8_TaskOrder ==
  [][Training =>
       \A p \in Procs :
         LET t == tr'[p]
             n == Len(Tasks(params))
         IN /\ Len(t.units) = n
            /\ \A i, j \in 1..n : t.units[i] = t.units[j]
            /\ \A i \in 1..n :
                 t.units[i] = tr[p].units[i]
                    + (IF InnerStep(p) THEN 1 ELSE 0)
            /\ t.n_total_iter = Sum(t.units)
            /\ t.nTrain + t.nExport = t.n_total_iter
            /\ IF params.export_data THEN t.nTrain = 0
               ELSE t.nExport = 0]_vars

C8_Witness ==
  /\ Training
  /\ \E p \in Procs :
       /\ pass[p] = 0
       /\ pc[p] = "epoch_end"
       /\ tr[p].units = <<2, 2>>
       /\ tr[p].nExport = 4

(* C9: every process running the epoch loop does the epoch-boundary update *)
(* of the progress state once per epoch boundary, so two processes in      *)
(* their k-th pass of the epoch loop hold the same epoch index.            *)
C9_EpochInSync ==
  Training =>
    \A p, q \in Procs :
      (InnerLoop(p) /\ InnerLoop(q) /\ pass[p] = pass[q]) =>
         /\ tr[p].nEnd = tr[q].nEnd
         /\ tr[p].epoch = tr[q].epoch

====
